---- MODULE Spec2Model ----
(***************************************************************************)
(* Monte Carlo investment simulator: model.py (perform_simulation,         *)
(* perform_monte_carlo) and helpers.py (get_random_returns,                *)
(* get_confidence_levels, get_yearly_percentiles).                         *)
(*                                                                         *)
(* Numbers.  The program works on floats; the model works on exact         *)
(* integers.  Money amounts are integers.  Rates (estimated_roi,           *)
(* volatility, the drawn returns) are integers that are multiples of 12,   *)
(* so that monthly_rate = (annual_return - 1) / 12 is an exact integer.    *)
(* A percentile is kept multiplied by PScale = 40, because every rank the  *)
(* program asks for (2.5, 5, 25, 50, 75, 95, 97.5) is a multiple of 1/40.  *)
(* A mean return is kept as the fraction num/den.                          *)
(***************************************************************************)
EXTENDS Integers, Sequences, FiniteSets, TLC

\* ------------------------------------------------------------------ bounds
MaxYears == 2
MaxPaths == 2
\* A year of monthly factor 2 multiplies the balance by 4096; such a year is
\* drawn only while |balance| <= MaxBalance, which keeps every value in TLC's
\* integer range.
MaxBalance == 5000

\* Values the caller may pass, valid and invalid ones.
InitialInvestments == {-1, 0, 1}
MonthlyContributions == {-1, 0, 1}
YearlyBonuses == {-1, 0, 1}
EstimatedRois == {-12, 0}
Volatilities == {-12, 0, 12}
\* Outcomes of one standard normal sample (numpy draws loc + scale * z).
StandardNormal == {-1, 1}

\* ---------------------------------------------------------------- constants
MonthsPerYear == 12
PScale == 40
Q2_5 == 1
Q5 == 2
Q25 == 10
Q50 == 20
Q75 == 30
Q95 == 38
Q97_5 == 39

NaN == "NaN"
Unset == "unset"

VARIABLES inputs, n, pc, final_balances, results, mean_returns, drawn,
          lower_confidence, upper_confidence, yearly_percentiles, raised

vars == <<inputs, n, pc, final_balances, results, mean_returns, drawn,
          lower_confidence, upper_confidence, yearly_percentiles, raised>>

Abs(x) == IF x < 0 THEN -x ELSE x

RECURSIVE SumSeq(_)
SumSeq(s) == IF s = <<>> THEN 0 ELSE Head(s) + SumSeq(Tail(s))

\* ---------------------------------------------------------------- helpers.py
\* np.random.normal(loc, scale, size) raises ValueError for scale < 0 and for
\* a negative size.
NormalRaises(in) == in.volatility < 0 \/ in.years < 0

\* Variant: the volatility argument is not passed on, so the default scale is
\* used whatever the caller asked for.
get_random_returns_default_scale(in, z) ==
    [i \in 1..in.years |-> (in.estimated_roi + 12 * z[i]) + 1]

\* get_random_returns: the samples loc + scale * z, each plus 1.
get_random_returns(in, z) ==
    [i \in 1..in.years |-> (in.estimated_roi + in.volatility * z[i]) + 1]

\* Variant: the interpolation reads the values in the order given, unsorted.
PercentileUnsorted(values, q40) ==
    LET cnt    == Len(values)
        rank   == q40 * (cnt - 1)
        lo     == rank \div PScale
        frac   == rank % PScale
        hi     == IF lo + 1 > cnt - 1 THEN cnt - 1 ELSE lo + 1
    IN  values[lo + 1] * PScale + (values[hi + 1] - values[lo + 1]) * frac

\* np.percentile(values, q), linear interpolation, for a non-empty sequence;
\* q40 is the rank in units of 1/40 and the result is scaled by PScale.
Percentile(values, q40) ==
    LET sorted == SortSeq(values, <)
        cnt    == Len(values)
        rank   == q40 * (cnt - 1)
        lo     == rank \div PScale
        frac   == rank % PScale
        hi     == IF lo + 1 > cnt - 1 THEN cnt - 1 ELSE lo + 1
    IN  sorted[lo + 1] * PScale + (sorted[hi + 1] - sorted[lo + 1]) * frac

\* Variant: the two bounds are returned in the wrong order.
get_confidence_levels_swapped(balances) ==
    [lower |-> Percentile(balances, Q97_5), upper |-> Percentile(balances, Q2_5)]

\* get_confidence_levels: the 2.5th and the 97.5th percentile of the final
\* balances.
get_confidence_levels(balances) ==
    [lower |-> Percentile(balances, Q2_5), upper |-> Percentile(balances, Q97_5)]

\* zip(*results): as many tuples as the shortest trajectory has entries, none
\* when there is no trajectory.
RECURSIVE MinLen(_)
MinLen(rs) ==
    IF rs = <<>> THEN 0
    ELSE IF Len(rs) = 1 THEN Len(rs[1])
    ELSE LET m == MinLen(Tail(rs))
         IN  IF Len(rs[1]) < m THEN Len(rs[1]) ELSE m

\* Variant: the table is built from the trajectories themselves, not rotated.
RotatedNot(rs) == rs

Rotated(rs) ==
    [j \in 1..MinLen(rs) |-> [k \in 1..Len(rs) |-> rs[k][j]]]

\* Variant: the monthly contribution is counted once a year.
InvestedNoTwelve(in, i) ==
    in.initial_investment + (in.monthly_contribution + in.yearly_bonus) * i

\* Variant: the years are counted from 1.
InvestedOffByOne(in, i) ==
    in.initial_investment +
    (in.monthly_contribution * MonthsPerYear + in.yearly_bonus) * (i + 1)

Invested(in, i) ==
    in.initial_investment +
    (in.monthly_contribution * MonthsPerYear + in.yearly_bonus) * i

\* get_yearly_percentiles: row j of the table is year i = j - 1.
get_yearly_percentiles(rs, in) ==
    LET rot == Rotated(rs)
    IN  [j \in 1..Len(rot) |->
            [year     |-> j - 1,
             p95      |-> Percentile(rot[j], Q95),
             p75      |-> Percentile(rot[j], Q75),
             median   |-> Percentile(rot[j], Q50),
             p25      |-> Percentile(rot[j], Q25),
             p5       |-> Percentile(rot[j], Q5),
             invested |-> Invested(in, j - 1)]]

\* ------------------------------------------------------------------ model.py
\* Variant: the balance grows before the contribution is added.
MonthStepGrowthFirst(balance, in, monthly_rate) ==
    balance * (1 + monthly_rate) + in.monthly_contribution

\* One month: the contribution is added, then the balance grows.
MonthStep(balance, in, monthly_rate) ==
    (balance + in.monthly_contribution) * (1 + monthly_rate)

RECURSIVE Months(_, _, _, _)
Months(balance, in, monthly_rate, m) ==
    IF m = 0 THEN balance
    ELSE Months(MonthStep(balance, in, monthly_rate), in, monthly_rate, m - 1)

\* One pass of the loop over the years.
YearStep(balance, in, annual_return) ==
    LET monthly_rate == (annual_return - 1) \div MonthsPerYear
    IN  Months(balance, in, monthly_rate, MonthsPerYear) + in.yearly_bonus

RECURSIVE History(_, _, _)
History(history, in, returns) ==
    IF returns = <<>> THEN history
    ELSE History(Append(history,
                        YearStep(history[Len(history)], in, Head(returns))),
                 in, Tail(returns))

\* (np.mean(returns) - 1) * 100 as a fraction; NaN for an empty sequence.
MeanReturn(returns) ==
    IF Len(returns) = 0 THEN NaN
    ELSE [num |-> (SumSeq(returns) - Len(returns)) * 100, den |-> Len(returns)]

\* Variant: the balance that is returned is the one the path started from.
perform_simulation_stale_balance(in, returns) ==
    LET history == History(<<in.initial_investment>>, in, returns)
    IN  [final_balance |-> in.initial_investment,
         history       |-> history,
         mean_return   |-> MeanReturn(returns),
         inputs        |-> in]

\* Variant: the path writes its balance back into the mapping it was given.
perform_simulation_writes_inputs(in, returns) ==
    LET history == History(<<in.initial_investment>>, in, returns)
    IN  [final_balance |-> history[Len(history)],
         history       |-> history,
         mean_return   |-> MeanReturn(returns),
         inputs        |-> [in EXCEPT !.initial_investment =
                                         history[Len(history)]]]

\* perform_simulation: the returned triple, and the mapping `inputs` as the
\* call leaves it (it is passed by reference and only read).
perform_simulation(in, returns) ==
    LET history == History(<<in.initial_investment>>, in, returns)
    IN  [final_balance |-> history[Len(history)],
         history       |-> history,
         mean_return   |-> MeanReturn(returns),
         inputs        |-> in]

\* The bound on the drawn returns: a year that grows the balance is drawn only
\* from a balance of at most MaxBalance.
RECURSIVE InRange(_, _, _)
InRange(balance, in, returns) ==
    \/ returns = <<>>
    \/ /\ (Head(returns) <= 1 \/ Abs(balance) <= MaxBalance)
       /\ InRange(YearStep(balance, in, Head(returns)), in, Tail(returns))

Samples(in) ==
    IF in.years <= 0 THEN {<<>>}
    ELSE {z \in [1..in.years -> StandardNormal] :
            InRange(in.initial_investment, in, get_random_returns(in, z))}

\* -------------------------------------------------------------------- state
Init ==
    /\ inputs \in [initial_investment   : InitialInvestments,
                   monthly_contribution : MonthlyContributions,
                   yearly_bonus         : YearlyBonuses,
                   years                : -1..MaxYears,
                   estimated_roi        : EstimatedRois,
                   volatility           : Volatilities]
    /\ n \in -1..MaxPaths
    /\ pc = "loop"
    /\ final_balances = <<>>
    /\ results = <<>>
    /\ mean_returns = <<>>
    /\ drawn = <<>>
    /\ lower_confidence = Unset
    /\ upper_confidence = Unset
    /\ yearly_percentiles = Unset
    /\ raised = "none"

\* Variant: the new path is put in front of the collected ones.
SimulatePathPrepend ==
    /\ pc = "loop"
    /\ Len(results) < n
    /\ ~NormalRaises(inputs)
    /\ \E z \in Samples(inputs) :
          LET returns == get_random_returns(inputs, z)
              sim     == perform_simulation(inputs, returns)
          IN  /\ final_balances' = <<sim.final_balance>> \o final_balances
              /\ results' = <<sim.history>> \o results
              /\ mean_returns' = <<sim.mean_return>> \o mean_returns
              /\ drawn' = <<returns>> \o drawn
              /\ inputs' = sim.inputs
    /\ UNCHANGED <<n, pc, lower_confidence, upper_confidence,
                   yearly_percentiles, raised>>

\* One pass of `for _ in range(n)`: perform_simulation and the three appends.
SimulatePath ==
    /\ pc = "loop"
    /\ Len(results) < n
    /\ ~NormalRaises(inputs)
    /\ \E z \in Samples(inputs) :
          LET returns == get_random_returns(inputs, z)
              sim     == perform_simulation(inputs, returns)
          IN  /\ final_balances' = Append(final_balances, sim.final_balance)
              /\ results' = Append(results, sim.history)
              /\ mean_returns' = Append(mean_returns, sim.mean_return)
              /\ drawn' = Append(drawn, returns)
              /\ inputs' = sim.inputs
    /\ UNCHANGED <<n, pc, lower_confidence, upper_confidence,
                   yearly_percentiles, raised>>

\* The pass in which get_random_returns raises: the error leaves
\* perform_monte_carlo.
SimulationRaises ==
    /\ pc = "loop"
    /\ Len(results) < n
    /\ NormalRaises(inputs)
    /\ pc' = "failed"
    /\ raised' = "ValueError"
    /\ UNCHANGED <<inputs, n, final_balances, results, mean_returns, drawn,
                   lower_confidence, upper_confidence, yearly_percentiles>>

\* Variant: the loop stops one pass early.
LoopDoneEarly == pc = "loop" /\ Len(results) >= n - 1

LoopDone == pc = "loop" /\ Len(results) >= n

\* Lines 72-82 for at least one path: the confidence levels, the table, and
\* the returned mapping.
Statistics ==
    /\ LoopDone
    /\ final_balances # <<>>
    /\ lower_confidence' = get_confidence_levels(final_balances).lower
    /\ upper_confidence' = get_confidence_levels(final_balances).upper
    /\ yearly_percentiles' = get_yearly_percentiles(results, inputs)
    /\ pc' = "returned"
    /\ UNCHANGED <<inputs, n, final_balances, results, mean_returns, drawn,
                   raised>>

\* Lines 72-82 for no path, numpy returning nan for the percentile of an
\* empty array (older numpy, with a RuntimeWarning).
StatisticsEmptyNaN ==
    /\ LoopDone
    /\ final_balances = <<>>
    /\ lower_confidence' = NaN
    /\ upper_confidence' = NaN
    /\ yearly_percentiles' = get_yearly_percentiles(results, inputs)
    /\ pc' = "returned"
    /\ UNCHANGED <<inputs, n, final_balances, results, mean_returns, drawn,
                   raised>>

\* Line 72 for no path, numpy raising for the percentile of an empty array
\* (newer numpy: IndexError from the partition step).
StatisticsEmptyRaises ==
    /\ LoopDone
    /\ final_balances = <<>>
    /\ pc' = "failed"
    /\ raised' = "IndexError"
    /\ UNCHANGED <<inputs, n, final_balances, results, mean_returns, drawn,
                   lower_confidence, upper_confidence, yearly_percentiles>>

Next ==
    \/ SimulatePath
    \/ SimulationRaises
    \/ Statistics
    \/ StatisticsEmptyNaN
    \/ StatisticsEmptyRaises

Spec == Init /\ [][Next]_vars

\* The runs of a build whose numpy raises for the percentile of an empty
\* array.
NextEmptyRaises ==
    \/ SimulatePath
    \/ SimulationRaises
    \/ Statistics
    \/ StatisticsEmptyRaises

SpecEmptyRaises == Init /\ [][NextEmptyRaises]_vars

\* The variables whose values keep their type along a run (the statistics go
\* from "unset" to numbers).  Every step of Next changes pc or adds a path.
collected == <<inputs, n, pc, final_balances, results, mean_returns, drawn,
               raised>>

\* ------------------------------------------------------------------- claims
Returned == pc = "returned"

MoneyValid ==
    /\ inputs.initial_investment >= 0
    /\ inputs.monthly_contribution >= 0
    /\ inputs.yearly_bonus >= 0

\* The declared domain of the parameters (spec, data model).
ParamsValid ==
    /\ MoneyValid
    /\ inputs.years >= 1
    /\ n >= 1
    /\ inputs.volatility >= 0

\* f^12, and f + f^2 + ... + f^12 = f (1 + f) (1 + f^2) (1 + f^4 + f^8).
Pow12(f) == LET f4 == f * f * f * f IN f4 * f4 * f4
GeoSum12(f) ==
    LET f2 == f * f
        f4 == f2 * f2
    IN  f * (1 + f) * (1 + f2) * (1 + f4 + f4 * f4)

MinOf(s) == CHOOSE x \in {s[k] : k \in 1..Len(s)} :
                \A y \in {s[k] : k \in 1..Len(s)} : x <= y
MaxOf(s) == CHOOSE x \in {s[k] : k \in 1..Len(s)} :
                \A y \in {s[k] : k \in 1..Len(s)} : x >= y

\* C1: for valid parameters a returned run holds exactly N final balances,
\* N trajectories and N mean returns, and every trajectory has H+1 entries,
\* whatever returns were drawn.
C1_Counts ==
    (Returned /\ ParamsValid) =>
        /\ Len(final_balances) = n
        /\ Len(results) = n
        /\ Len(mean_returns) = n
        /\ \A k \in 1..Len(results) : Len(results[k]) = inputs.years + 1

C1_Witness ==
    /\ Returned /\ ParamsValid
    /\ n >= 2 /\ inputs.years >= 2 /\ inputs.volatility > 0
    /\ \E k \in 1..Len(drawn) : drawn[k][1] # drawn[k][2]

\* C2: the value of year i+1 is the value of year i after 12 months of
\* "add the contribution, then multiply by 1 + (multiplier - 1)/12", plus the
\* yearly bonus once.  With factor f = 1 + (multiplier - 1)/12 that is
\* f^12 * value + contribution * (f + f^2 + ... + f^12) + bonus: the
\* contribution of a month grows in that month, the bonus does not grow.
C2_YearRecurrence ==
    \A k \in 1..Len(results) :
        \A i \in 1..(Len(results[k]) - 1) :
            LET f == 1 + (drawn[k][i] - 1) \div 12
            IN  results[k][i + 1] =
                    Pow12(f) * results[k][i]
                    + inputs.monthly_contribution * GeoSum12(f)
                    + inputs.yearly_bonus

C2_Witness ==
    \E k \in 1..Len(results) :
        /\ Len(results[k]) = 3
        /\ drawn[k][2] = 13
        /\ results[k][2] # 0
        /\ inputs.monthly_contribution > 0
        /\ inputs.yearly_bonus > 0

\* C3: the table has one row per year 0..H; in row i the year column is i and
\* the invested column is initial + (monthly * 12 + bonus) * i, a value that
\* depends on the parameters alone.
C3_Invested ==
    Returned =>
        /\ (n >= 1 => Len(yearly_percentiles) = inputs.years + 1)
        /\ \A j \in 1..Len(yearly_percentiles) :
              /\ yearly_percentiles[j].year = j - 1
              /\ yearly_percentiles[j].invested =
                    inputs.initial_investment
                    + 12 * inputs.monthly_contribution * (j - 1)
                    + inputs.yearly_bonus * (j - 1)

C3_Witness ==
    /\ Returned
    /\ Len(yearly_percentiles) = 3
    /\ inputs.monthly_contribution = 1
    /\ inputs.yearly_bonus = 1
    /\ yearly_percentiles[3].invested = inputs.initial_investment + 26
    /\ \E k \in 1..Len(drawn) : drawn[k] # drawn[1]

\* C4: in every row of the table the percentiles are ordered:
\* 5th <= 25th <= median <= 75th <= 95th.
C4_Monotone ==
    Returned =>
        \A j \in 1..Len(yearly_percentiles) :
            LET row == yearly_percentiles[j]
            IN  /\ row.p5 <= row.p25
                /\ row.p25 <= row.median
                /\ row.median <= row.p75
                /\ row.p75 <= row.p95

C4_Witness ==
    /\ Returned
    /\ n = 2
    /\ \E j \in 1..Len(yearly_percentiles) :
          LET row == yearly_percentiles[j]
          IN  /\ row.p5 < row.p25
              /\ row.p25 < row.median
              /\ row.median < row.p75
              /\ row.p75 < row.p95
              /\ results[1][j] > results[2][j]

\* C5: the lower bound (2.5th percentile) is at most the median of the
\* returned final balances, which is at most the upper bound (97.5th); both
\* bounds lie within the range of the returned final balances, and that
\* median is the median of the table's last row.
C5_ConfidenceOrder ==
    (Returned /\ n >= 1) =>
        LET med == Percentile(final_balances, Q50)
        IN  /\ lower_confidence <= med
            /\ med <= upper_confidence
            /\ MinOf(final_balances) * PScale <= lower_confidence
            /\ upper_confidence <= MaxOf(final_balances) * PScale
            /\ med = yearly_percentiles[Len(yearly_percentiles)].median

C5_Witness ==
    /\ Returned
    /\ n = 2
    /\ lower_confidence < Percentile(final_balances, Q50)
    /\ Percentile(final_balances, Q50) < upper_confidence
    /\ final_balances[1] > final_balances[2]

\* C6: whenever a parameter is outside its declared domain, the run refuses
\* before any simulation work: no return sequence is drawn, no path is
\* simulated and no result is returned.
C6_RefusesInvalid ==
    ~ParamsValid =>
        /\ drawn = <<>>
        /\ results = <<>>
        /\ ~Returned

\* C7: with volatility 0 all trajectories of a run are the same, and every
\* row of the table has its five percentiles equal to that trajectory's
\* balance of the year.
C7_ZeroVolatility ==
    inputs.volatility = 0 =>
        /\ \A k \in 1..Len(results) : results[k] = results[1]
        /\ (Returned /\ n >= 1) =>
              /\ Len(yearly_percentiles) = Len(results[1])
              /\ \A j \in 1..Len(yearly_percentiles) :
                    LET row == yearly_percentiles[j]
                        v   == results[1][j] * PScale
                    IN  /\ row.p5 = v /\ row.p25 = v /\ row.median = v
                        /\ row.p75 = v /\ row.p95 = v

C7_Witness ==
    /\ inputs.volatility = 0
    /\ Returned
    /\ n = 2
    /\ Len(yearly_percentiles) = 3
    /\ yearly_percentiles[3].median # yearly_percentiles[1].median
    /\ yearly_percentiles[3].median # yearly_percentiles[2].median

\* C8: a run of one path (the other parameters such that the return
\* generator accepts them) does not fail; every row of its table has its five
\* percentiles equal to the path's balance of the year, and both confidence
\* bounds equal the path's final balance.
C8_SinglePath ==
    (n = 1 /\ inputs.volatility >= 0 /\ inputs.years >= 0) =>
        /\ pc # "failed"
        /\ Returned =>
              /\ Len(results) = 1
              /\ Len(yearly_percentiles) = inputs.years + 1
              /\ \A j \in 1..Len(yearly_percentiles) :
                    LET row == yearly_percentiles[j]
                        v   == results[1][j] * PScale
                    IN  /\ row.p5 = v /\ row.p25 = v /\ row.median = v
                        /\ row.p75 = v /\ row.p95 = v
              /\ lower_confidence = final_balances[1] * PScale
              /\ upper_confidence = final_balances[1] * PScale

C8_Witness ==
    /\ n = 1
    /\ Returned
    /\ inputs.volatility > 0
    /\ Len(results[1]) = 3
    /\ results[1][3] > results[1][2]
    /\ results[1][2] > results[1][1]

\* C9: with years = 0 and N >= 1 the run either is refused or returns a
\* table of the single row of year 0 whose percentiles and invested amount
\* are the initial investment, every trajectory being the initial investment
\* alone and every final balance the initial investment.
C9_ZeroYears ==
    (inputs.years = 0 /\ n >= 1) =>
        /\ pc = "failed" => (raised = "ValueError" /\ results = <<>>)
        /\ \A k \in 1..Len(results) :
              /\ results[k] = <<inputs.initial_investment>>
              /\ final_balances[k] = inputs.initial_investment
        /\ Returned =>
              /\ Len(results) = n
              /\ Len(yearly_percentiles) = 1
              /\ LET row == yearly_percentiles[1]
                     v   == inputs.initial_investment * PScale
                 IN  /\ row.year = 0
                     /\ row.invested = inputs.initial_investment
                     /\ row.p5 = v /\ row.p25 = v /\ row.median = v
                     /\ row.p75 = v /\ row.p95 = v

C9_Witness ==
    /\ inputs.years = 0
    /\ n = 2
    /\ Returned
    /\ inputs.initial_investment = 1
    /\ inputs.monthly_contribution = 1
    /\ inputs.yearly_bonus = 1
    /\ inputs.volatility > 0

\* C10: with N = 0 (the other parameters in their domain) the run does not
\* fail part-way: once past the loop it has returned empty collections, a
\* table without rows and a well-defined confidence interval.
C10_ZeroPaths ==
    (n = 0 /\ MoneyValid /\ inputs.years >= 1 /\ inputs.volatility >= 0
           /\ pc # "loop") =>
        /\ Returned
        /\ final_balances = <<>> /\ results = <<>> /\ mean_returns = <<>>
        /\ yearly_percentiles = <<>>
        /\ lower_confidence # NaN
        /\ upper_confidence # NaN

\* C11: in every returned result the collections are aligned by path: the
\* k-th final balance is the last entry of the k-th trajectory, the k-th
\* trajectory starts at the initial investment, and the k-th mean return is
\* (mean of the k-th path's own multipliers - 1) * 100.
C11_Aligned ==
    Returned =>
        /\ Len(final_balances) = Len(results)
        /\ Len(mean_returns) = Len(results)
        /\ \A k \in 1..Len(results) :
              /\ final_balances[k] = results[k][Len(results[k])]
              /\ results[k][1] = inputs.initial_investment
              /\ IF inputs.years = 0 THEN mean_returns[k] = NaN
                 ELSE /\ mean_returns[k].den = inputs.years
                      /\ mean_returns[k].num =
                            100 * SumSeq([i \in 1..Len(drawn[k]) |->
                                             drawn[k][i] - 1])

C11_Witness ==
    /\ Returned
    /\ Len(results) = 2
    /\ inputs.years = 2
    /\ final_balances[1] # final_balances[2]
    /\ final_balances[1] # inputs.initial_investment
    /\ mean_returns[1] # mean_returns[2]

\* C12: with valid parameters, (a) the confidence interval and the table are
\* computed only once all N paths are there, each of H yearly steps, and the
\* step that computes them changes no collection; (b) a step that simulates
\* adds exactly one path, after the ones collected before, which stay as they
\* are, so no path is simulated twice or out of order; (c) the run always
\* ends with a returned result of exactly N paths: it never fails, a step is
\* possible until it has returned, and every step uses up one of the
\* N + 1 steps that remain (N passes and the statistics).
StatisticsAfterAllPaths ==
    pc' = "returned" =>
        /\ pc = "loop"
        /\ Len(results) = n
        /\ \A k \in 1..Len(results) : Len(results[k]) = inputs.years + 1
        /\ <<results', final_balances', mean_returns', drawn'>> =
              <<results, final_balances, mean_returns, drawn>>

OnePathPerPass ==
    results' # results =>
        /\ pc = "loop" /\ pc' = "loop"
        /\ Len(results) < n
        /\ Len(results') = Len(results) + 1
        /\ SubSeq(results', 1, Len(results)) = results
        /\ SubSeq(drawn', 1, Len(drawn)) = drawn
        /\ Len(drawn') = Len(results')
        /\ Len(results'[Len(results')]) = inputs.years + 1

StepsLeft == (n - Len(results)) + (IF pc = "loop" THEN 1 ELSE 0)

C12_RunOrder ==
    /\ [][ParamsValid => /\ StatisticsAfterAllPaths
                         /\ OnePathPerPass
                         /\ StepsLeft' = StepsLeft - 1]_collected
    /\ [](IF ParamsValid /\ pc = "loop"
          THEN /\ lower_confidence = Unset
               /\ upper_confidence = Unset
               /\ yearly_percentiles = Unset
               /\ StepsLeft >= 1
               /\ ENABLED Next
          ELSE ParamsValid => /\ Returned
                              /\ StepsLeft = 0
                              /\ Len(results) = n
                              /\ Len(drawn) = n)

C12_Witness ==
    /\ Returned /\ ParamsValid
    /\ n = 2 /\ inputs.years = 2
    /\ results[1] # results[2]
    /\ lower_confidence < upper_confidence

\* C13: the paths share nothing but the random source.  (a) No step changes
\* the parameters or the path count, and a trajectory, final balance or mean
\* return once collected stays as it is.  (b) Every path, the first and any
\* later one, starts from the initial investment of the parameters.  (c) A
\* path's trajectory and final balance depend on its own return sequence
\* alone: two paths of a run that drew the same returns have the same
\* trajectory, whatever the paths before them drew.
IsPrefix(s, t) == Len(s) <= Len(t) /\ SubSeq(t, 1, Len(s)) = s

FrameKept ==
    /\ inputs' = inputs
    /\ n' = n
    /\ IsPrefix(results, results')
    /\ IsPrefix(final_balances, final_balances')
    /\ IsPrefix(mean_returns, mean_returns')
    /\ IsPrefix(drawn, drawn')

C13_Frame ==
    /\ [][FrameKept]_collected
    /\ [](\A k \in 1..Len(results) :
            /\ results[k][1] = inputs.initial_investment
            /\ \A j \in 1..Len(results) :
                  drawn[j] = drawn[k] =>
                      /\ results[j] = results[k]
                      /\ final_balances[j] = final_balances[k]
                      /\ mean_returns[j] = mean_returns[k])

C13_Witness ==
    /\ Returned
    /\ Len(results) = 2
    /\ inputs.years = 2
    /\ drawn[1] # drawn[2]
    /\ results[1][3] # inputs.initial_investment
    /\ results[2][1] = inputs.initial_investment
    /\ results[2] # results[1]


====
